---- MODULE Spec2Model ----
(***************************************************************************)
(* Model of the visit-report server (src/server.js).  The file holds two   *)
(* versions of the server: the filtering version (lines 1-508: last 24     *)
(* hours, sorted latest first) and the unfiltered version (lines 510-719). *)
(*                                                                         *)
(* Text is modelled by its content and its length in UTF-16 code units     *)
(* (what String.length counts): a text value is a record [s, n], a message *)
(* body is a sequence of parts, each part one template of the source.      *)
(* Instants are milliseconds since the epoch.                              *)
(***************************************************************************)
EXTENDS Integers, Sequences, FiniteSets, TLC

VARIABLES
  now,          \* the instant new Date() reads during the run
  genLen,       \* length of new Date().toLocaleString('en-IN') during the run
  pc,           \* where the run stands: "idle", an await, or "done"
  entry,        \* the entry point that started the run
  body,         \* req.body of POST /send-report
  store,        \* the documents of collection siteVisits
  sortedVisits, \* the row set of the run (sortedVisits / last24HourVisits / rows)
  results,      \* the results object of POST /send-report
  mails,        \* every transporter.sendMail call, with its outcome
  chats,        \* every twilioClient.messages.create call, with its outcome
  wa,           \* the frame of the chat sender: what is left to send
  logs,         \* the counts written to the console
  response,     \* the HTTP response, or what the job returned or threw
  pureVal,      \* SpecPure: the row sequence in hand
  pureArg,      \* SpecPure: the argument of the last call
  pureOps       \* SpecPure: the helpers called so far, in order

vars == <<now, genLen, pc, entry, body, store, sortedVisits, results, mails,
          chats, wa, logs, response, pureVal, pureArg, pureOps>>

runVars == <<pc, entry, body, sortedVisits, results, mails, chats, wa, logs,
             response>>

pureVars == <<pureVal, pureArg, pureOps>>

----------------------------------------------------------------------------
(* Bounds of the model *)

\* rows in a request body or documents in the store (Spec)
MaxVisits == 2
\* rows handed to a helper or to the chat sender directly (SpecPure, SpecChat)
MaxRows == 3
\* helper calls in a row (SpecPure)
MaxCalls == 2

----------------------------------------------------------------------------
(* Values *)

\* null / undefined where a number is expected
Null == -1

Txt(s, n) == [s |-> s, n |-> n]

\* the fallback "-" of every field
Dash == Txt("-", 1)

\* a missing or empty field of a document or of a request body
Missing == Txt("", 0)

RECURSIVE Digits(_)
\* String(n).length for n >= 0
Digits(n) == IF n < 10 THEN 1 ELSE 1 + Digits(n \div 10)

RECURSIVE SumSeq(_)
SumSeq(s) == IF s = <<>> THEN 0 ELSE Head(s) + SumSeq(Tail(s))

RECURSIVE Flatten(_)
\* the concatenation of a sequence of sequences
Flatten(ss) == IF ss = <<>> THEN <<>> ELSE Head(ss) \o Flatten(Tail(ss))

Count(s, P(_)) == Len(SelectSeq(s, P))

\* 24 * 60 * 60 * 1000
DayMs == 24 * 60 * 60 * 1000

\* the instants new Date() may read; a multiple of 1000, some days after the epoch
Nows == {3 * DayMs, 3 * DayMs + 5000}

\* the instant of a run of the server
Clock == 3 * DayMs

\* the lengths of "d/m/yyyy, h:mm:ss am" .. "dd/mm/yyyy, hh:mm:ss am"
GenLens == {20, 23}

----------------------------------------------------------------------------
(* Documents and rows: fetchVisitData, lines 97-121, and lines 559-575 *)

\* data.x || "-"
OrDash(t) == IF t.n = 0 THEN Dash ELSE t

RECURSIVE JoinLen(_)
\* items.join(", ").length
JoinLen(items) ==
  IF items = <<>> THEN 0
  ELSE IF Len(items) = 1 THEN items[1].n
  ELSE items[1].n + 2 + JoinLen(Tail(items))

\* Array.isArray(data.propertyTypes) ? data.propertyTypes.join(", ") : "-"
JoinTypes(p) ==
  IF p.isArray THEN [s |-> [i \in 1..Len(p.items) |-> p.items[i].s], n |-> JoinLen(p.items)]
  ELSE [s |-> <<"-">>, n |-> 1]

\* new Date(ms).toLocaleDateString("en-IN"): <<day, month, year>>, read in UTC;
\* the model's instants all fall in January 1970
LocaleDate(ms) == <<1 + (ms \div DayMs), 1, 1970>>

\* the visitDate "-" of a row without a timestamp
NoDate == <<>>

\* String(visitDate).length: "d/m/yyyy" or "-"
DateLen(vd) ==
  IF Len(vd) = 3 THEN Digits(vd[1]) + 1 + Digits(vd[2]) + 1 + Digits(vd[3]) ELSE 1

\* doc.visitAt ? new Date(visitAt._seconds * 1000) : null
DocTimestamp(doc) == IF doc.visitAt = Null THEN Null ELSE doc.visitAt * 1000

\* the row fetchVisitData pushes for a document (lines 102-121)
MakeRow(doc) ==
  LET visitTimestamp == DocTimestamp(doc) IN
  [ visitorName    |-> OrDash(doc.name),
    contactNumber  |-> OrDash(doc.phone),
    visitDate      |-> IF visitTimestamp # Null THEN LocaleDate(visitTimestamp) ELSE NoDate,
    visitTime      |-> OrDash(doc.visitTime),
    channelPartner |-> OrDash(doc.partner),
    propertyTypes  |-> JoinTypes(doc.propertyTypes),
    remark         |-> OrDash(doc.remarks),
    status         |-> IF doc.bookingStatus.n = 0 THEN Txt("Not Booked", 10) ELSE doc.bookingStatus,
    visitTimestamp |-> visitTimestamp ]

\* snapshot.forEach(doc => rows.push(...))
MakeRows(docs) == [i \in 1..Len(docs) |-> MakeRow(docs[i])]

Doc(name, at, remarks, bookingStatus, types) ==
  [ name |-> name, phone |-> Txt("98100", 5), visitAt |-> at,
    visitTime |-> Missing, partner |-> Txt("Acme", 4),
    propertyTypes |-> types, remarks |-> remarks, bookingStatus |-> bookingStatus ]

Types2 == [isArray |-> TRUE, items |-> <<Txt("2BHK", 4), Txt("Villa", 5)>>]
NoTypes == [isArray |-> FALSE, items |-> <<>>]

\* The documents a store may hold when the clock reads t: visits one and two
\* hours old (two of them at the same instant), one exactly 24 hours old, one a
\* second older, one an hour ahead of the clock, one without visitAt.  Two
\* remarks are long: one whose block still fits a chunk, one whose block alone
\* is longer than the chat budget.
DocKinds(t) ==
  LET sec == t \div 1000 IN
  { Doc(Txt("Asha", 4),  sec - 3600,      Missing,                Txt("Booked", 6),     Types2),
    Doc(Txt("Ravi", 4),  sec - 7200,      Txt("long remark", 1270),  Missing,            NoTypes),
    Doc(Missing,         sec - 7200,      Txt("huge remark", 1600), Txt("Interested", 10), Types2),
    Doc(Txt("Edge", 4),  sec - 86400,     Missing,                Txt("Booked", 6),     NoTypes),
    Doc(Txt("Old", 3),   sec - 86401,     Missing,                Txt("Interested", 10), NoTypes),
    Doc(Txt("Soon", 4),  sec + 3600,      Missing,                Txt("Hold", 4),       NoTypes),
    Doc(Txt("Undated", 7), Null,          Missing,                Txt("Booked", 6),     NoTypes) }

\* a row of the same shape whose visitDate string was typed by hand
TypedRow(name, vd) ==
  [ MakeRow(Doc(name, Null, Missing, Missing, NoTypes)) EXCEPT !.visitDate = vd ]

\* the rows a caller may hand over when the clock reads t
RowKinds(t) ==
  { MakeRow(d) : d \in DocKinds(t) }
    \cup { TypedRow(Txt("Typed1", 6), <<2, 1, 1970>>),
           TypedRow(Txt("Typed2", 6), <<3, 1, 1970>>) }

SeqsUpTo(S, n) == UNION { [1..k -> S] : k \in 0..n }

----------------------------------------------------------------------------
(* filterLast24Hours, lines 58-67 *)

\* row.visitTimestamp is truthy
HasTimestamp(row) == row.visitTimestamp # Null

\* the predicate of rows.filter, with twentyFourHoursAgo = t - DayMs
KeepRow(row, t) ==
  IF ~HasTimestamp(row) THEN FALSE
  ELSE row.visitTimestamp >= t - DayMs

\* a filter that also drops the row at index 0
filterLast24HoursSkippingFirst(rows, t) ==
  IF rows = <<>> THEN <<>>
  ELSE SelectSeq(Tail(rows), LAMBDA row : KeepRow(row, t))

filterLast24Hours(rows, t) == SelectSeq(rows, LAMBDA row : KeepRow(row, t))

----------------------------------------------------------------------------
(* sortVisitsByDate, lines 72-92 *)

\* new Date(visitDate.split('/').reverse().join('-')): the day number of
\* "yyyy-m-d", or Null for an invalid date (NaN)
ParseDate(vd) ==
  IF Len(vd) = 3 THEN (vd[3] * 12 + vd[2]) * 31 + vd[1] ELSE Null

\* the comparator with the sign of b minus a swapped: oldest first
compareVisitsOldestFirst(a, b) ==
  IF HasTimestamp(a) /\ HasTimestamp(b) THEN a.visitTimestamp - b.visitTimestamp
  ELSE IF ~HasTimestamp(a) /\ HasTimestamp(b) THEN 1
  ELSE IF HasTimestamp(a) /\ ~HasTimestamp(b) THEN -1
  ELSE 0

\* the comparator handed to visits.sort (lines 73-91); the sort reads NaN as 0
compareVisits(a, b) ==
  IF HasTimestamp(a) /\ HasTimestamp(b) THEN b.visitTimestamp - a.visitTimestamp
  ELSE IF ~HasTimestamp(a) /\ HasTimestamp(b) THEN 1
  ELSE IF HasTimestamp(a) /\ ~HasTimestamp(b) THEN -1
  ELSE \* a.visitDate && b.visitDate: every row carries a visitDate string, "-"
       \* included, so line 90 is not reached; an invalid date makes dateB - dateA NaN
       LET dateA == ParseDate(a.visitDate)
           dateB == ParseDate(b.visitDate)
       IN IF dateA = Null \/ dateB = Null THEN 0 ELSE dateB - dateA

Reverse(s) == [i \in 1..Len(s) |-> s[Len(s) + 1 - i]]

RECURSIVE CountRun(_, _, _)
\* Array.prototype.sort as Node runs it on a short array: the length of the
\* run the array starts with, s[1..idx-1] being part of it
CountRun(s, descending, idx) ==
  IF idx > Len(s) THEN Len(s)
  ELSE LET order == compareVisits(s[idx], s[idx - 1]) IN
       IF (descending /\ order >= 0) \/ (~descending /\ order < 0) THEN idx - 1
       ELSE CountRun(s, descending, idx + 1)

RECURSIVE InsertionPoint(_, _, _, _)
\* the binary search for pivot among the sorted s[left+1 .. right]: the number
\* of elements that stay before it (after every element it compares equal to)
InsertionPoint(s, pivot, left, right) ==
  IF left >= right THEN left
  ELSE LET mid == left + ((right - left) \div 2) IN
       IF compareVisits(pivot, s[mid + 1]) < 0
       THEN InsertionPoint(s, pivot, left, mid)
       ELSE InsertionPoint(s, pivot, mid + 1, right)

RECURSIVE InsertRest(_, _)
\* binary insertion of s[sorted+1 ..] into the sorted s[1 .. sorted]
InsertRest(s, sorted) ==
  IF sorted >= Len(s) THEN s
  ELSE LET pivot == s[sorted + 1]
           at == InsertionPoint(s, pivot, 0, sorted)
           t == [i \in 1..Len(s) |->
                   IF i <= at THEN s[i]
                   ELSE IF i = at + 1 THEN pivot
                   ELSE IF i <= sorted + 1 THEN s[i - 1]
                   ELSE s[i]]
       IN InsertRest(t, sorted + 1)

\* visits.sort(compare): a strictly descending first run is reversed, the rest
\* is inserted into it
sortVisitsByDate(visits) ==
  IF Len(visits) < 2 THEN visits
  ELSE LET descending == compareVisits(visits[2], visits[1]) < 0
           run == CountRun(visits, descending, 3)
           made == IF descending
                   THEN Reverse(SubSeq(visits, 1, run)) \o SubSeq(visits, run + 1, Len(visits))
                   ELSE visits
       IN InsertRest(made, run)

----------------------------------------------------------------------------
(* The chat message: generateWhatsAppMessage, lines 139-162, and the        *)
(* templates of sendWhatsAppReport, lines 172-175, 208-210, 215-224, 229,   *)
(* 234.  Each length is that of the template's fixed text.                  *)

\* the title line "*Visit Report (Last 24 Hours)*" with its emoji (two code units)
TitleLen == 34
\* "Generated: " and "\n" around the date
GeneratedLen == 12
\* "*#", "*\n", the eight labels with their line ends, "\n"
VisitBlockLen == 115
\* the "*Summary (Last 24 Hours)*" line and the four labelled lines
SummaryLen == 79
\* the no-data body without its date
NoDataLen == 127
\* the header of part 1 without its date
FirstHeaderLen == 91
\* the header of a later part without its number
PartHeaderLen == 73
\* "#", "\n", the eight labels with their line ends, "\n"
ChunkBlockLen == 114
\* the "*Summary (Last 24 Hours)*" line, "Total: ", " | Booked: "
ChunkSummaryLen == 47
\* const maxLength = 1500
maxLength == 1500

\* the eight fields a report shows of a row
ShownFields(v) ==
  [ visitorName |-> v.visitorName, contactNumber |-> v.contactNumber,
    visitDate |-> v.visitDate, visitTime |-> v.visitTime,
    channelPartner |-> v.channelPartner, propertyTypes |-> v.propertyTypes,
    remark |-> v.remark, status |-> v.status ]

FieldsLen(f) ==
  f.visitorName.n + f.contactNumber.n + DateLen(f.visitDate) + f.visitTime.n
    + f.channelPartner.n + f.propertyTypes.n + f.remark.n + f.status.n

\* visits.filter(v => v.status === name).length
StatusCount(visits, name) == Count(visits, LAMBDA v : v.status.s = name)

TitlePart == [kind |-> "title"]
GeneratedPart(gl) == [kind |-> "generated", gen |-> gl]
\* lines 144-153 (style "bold") and lines 215-224 (style "plain")
VisitPart(style, i, v) ==
  [kind |-> "visit", style |-> style, sno |-> i, fields |-> ShownFields(v)]
\* lines 156-160
SummaryPart(visits) ==
  [kind |-> "summary",
   counts |-> [Total |-> Len(visits), Booked |-> StatusCount(visits, "Booked"),
               NotBooked |-> StatusCount(visits, "Not Booked"),
               Interested |-> StatusCount(visits, "Interested")]]
\* line 234
ChunkSummaryPart(visits) ==
  [kind |-> "summary",
   counts |-> [Total |-> Len(visits), Booked |-> StatusCount(visits, "Booked")]]
\* lines 208-210 (part 1, with the date) and line 229
PartHeader(n, gl) == [kind |-> "partHeader", part |-> n, gen |-> IF n = 1 THEN gl ELSE 0]
\* lines 172-175
NoDataPart(gl) == [kind |-> "noData", gen |-> gl]

RECURSIVE SumCounts(_, _)
\* the digits of the counts of a summary
SumCounts(counts, names) ==
  IF names = {} THEN 0
  ELSE LET k == CHOOSE x \in names : TRUE
       IN Digits(counts[k]) + SumCounts(counts, names \ {k})

\* part.length
PartLen(part) ==
  CASE part.kind = "title" -> TitleLen
    [] part.kind = "generated" -> GeneratedLen + part.gen
    [] part.kind = "visit" ->
         (IF part.style = "bold" THEN VisitBlockLen ELSE ChunkBlockLen)
           + Digits(part.sno) + FieldsLen(part.fields)
    [] part.kind = "summary" ->
         (IF DOMAIN part.counts = {"Total", "Booked"} THEN ChunkSummaryLen ELSE SummaryLen)
           + SumCounts(part.counts, DOMAIN part.counts)
    [] part.kind = "partHeader" ->
         IF part.part = 1 THEN FirstHeaderLen + part.gen
         ELSE PartHeaderLen + Digits(part.part)
    [] part.kind = "noData" -> NoDataLen + part.gen

\* message.length
BodyLen(parts) == SumSeq([i \in 1..Len(parts) |-> PartLen(parts[i])])

generateWhatsAppMessage(visits, gl) ==
  <<TitlePart, GeneratedPart(gl)>>
    \o [i \in 1..Len(visits) |-> VisitPart("bold", i, visits[i])]
    \o <<SummaryPart(visits)>>

\* the forEach step with the block added only when the chunk does not overflow
AddVisitUnlessSealed(st, visitText) ==
  IF BodyLen(st.currentChunk) + PartLen(visitText) > maxLength
  THEN [chunks |-> Append(st.chunks, st.currentChunk),
        chunkNumber |-> st.chunkNumber + 1,
        currentChunk |-> <<PartHeader(st.chunkNumber + 1, 0)>>]
  ELSE [st EXCEPT !.currentChunk = Append(st.currentChunk, visitText)]

\* one step of visits.forEach, lines 226-231
AddVisit(st, visitText) ==
  IF BodyLen(st.currentChunk) + PartLen(visitText) > maxLength
  THEN [chunks |-> Append(st.chunks, st.currentChunk),
        chunkNumber |-> st.chunkNumber + 1,
        currentChunk |-> <<PartHeader(st.chunkNumber + 1, 0), visitText>>]
  ELSE [st EXCEPT !.currentChunk = Append(st.currentChunk, visitText)]

RECURSIVE ChunkFrom(_, _, _)
\* visits.forEach from row i on, then lines 234-235
ChunkFrom(visits, i, st) ==
  IF i > Len(visits)
  THEN Append(st.chunks, Append(st.currentChunk, ChunkSummaryPart(visits)))
  ELSE ChunkFrom(visits, i + 1, AddVisit(st, VisitPart("plain", i, visits[i])))

\* lines 207-235: the chunks of the chunked path
BuildChunks(visits, gl) ==
  ChunkFrom(visits, 1,
            [chunks |-> <<>>, chunkNumber |-> 1, currentChunk |-> <<PartHeader(1, gl)>>])

\* phoneNumber.startsWith('whatsapp:') ? phoneNumber : `whatsapp:${phoneNumber}`
FormatNumber(phoneNumber) ==
  IF phoneNumber # <<>> /\ phoneNumber[1] = "whatsapp:" THEN phoneNumber
  ELSE <<"whatsapp:">> \o phoneNumber

\* the branches without the one for an empty row set
ChatPathWithoutEmptyCase(visits, message) ==
  IF BodyLen(message) <= maxLength THEN "single" ELSE "chunked"

\* the branch sendWhatsAppReport takes: lines 169, 197, 205
ChatPath(visits, message) ==
  IF Len(visits) = 0 THEN "noData"
  ELSE IF BodyLen(message) <= maxLength THEN "single"
  ELSE "chunked"

\* sendWhatsAppReport up to its first send (lines 167-235): the path it takes
\* and the bodies it will send, in order
PlanChat(phoneNumber, visits, gl) ==
  LET message == generateWhatsAppMessage(visits, gl)
      path == ChatPath(visits, message)
  IN [ to |-> FormatNumber(phoneNumber),
       path |-> path,
       bodies |-> CASE path = "noData" -> << <<NoDataPart(gl)>> >>
                    [] path = "single" -> <<message>>
                    [] path = "chunked" -> BuildChunks(visits, gl),
       messageIds |-> <<>>,
       visitsCount |-> Len(visits) ]

----------------------------------------------------------------------------
(* The email of the job: lines 271-325 (filtering) and 584-638 (unfiltered) *)

\* one <tr> of the table, one row of the sheet: S.No and the eight columns
Cells(visits) == [i \in 1..Len(visits) |-> [sno |-> i, fields |-> ShownFields(visits[i])]]

\* lines 283-298: the table and the summary block
htmlTable(visits) ==
  [ rows |-> Cells(visits),
    summary |-> [Total |-> Len(visits), Booked |-> StatusCount(visits, "Booked"),
                 NotBooked |-> StatusCount(visits, "Not Booked"),
                 Interested |-> StatusCount(visits, "Interested")] ]

\* lines 598-613: the table of the unfiltered version, which has no summary
htmlTableUnfiltered(rows) == [ rows |-> Cells(rows) ]

\* worksheet.addRow({ sno: i + 1, ...r }) under the nine column keys
sheetRows(visits) == Cells(visits)

\* const chunkSize = 5
chunkSize == 5

\* lines 661-666: the block of the unfiltered version
BriefPart(i, r) ==
  [ kind |-> "visit", style |-> "brief", sno |-> i,
    fields |-> [ visitorName |-> r.visitorName, contactNumber |-> r.contactNumber,
                 propertyTypes |-> r.propertyTypes, remark |-> r.remark,
                 status |-> r.status ] ]

RECURSIVE DailyMessagesFrom(_, _)
\* lines 671-673: for (i = 0; i < messages.length; i += chunkSize)
DailyMessagesFrom(messages, i) ==
  IF i >= Len(messages) THEN <<>>
  ELSE << <<[kind |-> "dailyTitle"]>>
            \o SubSeq(messages, i + 1, IF i + chunkSize < Len(messages)
                                       THEN i + chunkSize ELSE Len(messages)) >>
         \o DailyMessagesFrom(messages, i + chunkSize)

\* lines 658-673: the bodies of the unfiltered version
DailyMessages(rows) ==
  DailyMessagesFrom([i \in 1..Len(rows) |-> BriefPart(i, rows[i])], 0)

----------------------------------------------------------------------------
(* POST /send-report, lines 365-464: the request body and its validation *)

RECURSIVE TrimLeft(_)
TrimLeft(s) == IF s # <<>> /\ Head(s) = " " THEN TrimLeft(Tail(s)) ELSE s

\* to.trim(); a missing `to` is the empty string here
Trim(s) == Reverse(TrimLeft(Reverse(TrimLeft(s))))

\* [^\s@]
Plain(c) == c # " " /\ c # "@"

\* /^[^\s@]+@[^\s@]+\.[^\s@]+$/.test(s)
emailRegexTest(s) ==
  \E i \in 1..Len(s) : \E j \in 1..Len(s) :
    /\ 1 < i /\ i + 1 < j /\ j < Len(s)
    /\ s[i] = "@" /\ s[j] = "."
    /\ \A k \in 1..Len(s) : k # i => Plain(s[k])

\* `to`: missing, blank, no @, a valid address with spaces around it, no dot
Recipients ==
  { <<>>, <<" ", " ">>, <<"n", "o", ".", "e">>,
    <<" ", "a", "@", "b", ".", "c", " ">>, <<"a", "@", "b">> }

\* whatsappNumber: missing or empty, bare, already prefixed
Numbers == { <<>>, <<"+", "91">>, <<"whatsapp:", "+", "91">> }

\* sendMethod: the three documented values and another one
Methods == { "email", "whatsapp", "both", "sms" }

\* the request bodies; html, subject and attachments are left out (the default
\* HTML of lines 409-419 is sent, with no attachment)
Bodies(t) ==
  [ sendMethod : Methods, to : Recipients, whatsappNumber : Numbers,
    visits : SeqsUpTo({ MakeRow(d) : d \in DocKinds(t) }, MaxVisits) ]

NoBody == [ sendMethod |-> "", to |-> <<>>, whatsappNumber |-> <<>>, visits |-> <<>> ]

WantsEmail(m) == m = "email" \/ m = "both"
WantsChat(m) == m = "whatsapp" \/ m = "both"

\* a key of results that was never set
Unset == [set |-> FALSE]

NoResults == [email |-> Unset, whatsapp |-> Unset]

NoResponse == [kind |-> "none"]

\* return res.status(400).json({ ok: false, error })
BadRequest(error) == [kind |-> "http", status |-> 400, ok |-> FALSE, error |-> error]

\* res.status(500).json({ ok: false, error: err.message })
ServerError == [kind |-> "http", status |-> 500, ok |-> FALSE, error |-> "err.message"]

\* lines 452-459
SentResponse(b, res, sv) ==
  [ kind |-> "http", status |-> 200, ok |-> TRUE, sendMethod |-> b.sendMethod,
    results |-> res, totalVisits |-> Len(b.visits), sentVisits |-> Len(sv) ]

Returned(value) == [kind |-> "returned", value |-> value]

\* the promise of the job rejected
Threw == [kind |-> "threw"]

\* `return;`
Undefined == [undefined |-> TRUE]

NoWa == [ to |-> <<>>, path |-> "none", bodies |-> <<>>, messageIds |-> <<>>,
          visitsCount |-> 0 ]

\* the fixed destinations: lines 332 and 346, lines 645 and 677
JobRecipient == <<"r", "@", "g", ".", "c">>
JobNumber == <<"+", "917792097977">>
JobNumberUnfiltered == <<"whatsapp:", "+", "918290001814">>

\* last24HourVisits.length === 0, line 265, never true
NoVisitsNever(visits) == FALSE

\* last24HourVisits.length === 0, line 265
NoVisits(visits) == Len(visits) = 0

\* rows.length === 0, line 578
NoRows(rows) == Len(rows) = 0

----------------------------------------------------------------------------
(* The chat sender after its first await: lines 181-187, 198-204, 237-255 *)

\* what sendWhatsAppReport returns once every body is sent
ChatResult(w) ==
  IF w.path = "chunked"
  THEN [success |-> TRUE, messageIds |-> w.messageIds, visitsCount |-> w.visitsCount]
  ELSE [success |-> TRUE, messageId |-> w.messageIds[1],
        visitsCount |-> IF w.path = "noData" THEN 0 ELSE w.visitsCount]

\* the caller goes on with the value sendWhatsAppReport returned:
\* lines 449-459 (POST), lines 347-355 (job), or the direct caller
ChatReturned(result) ==
  /\ pc' = "done"
  /\ CASE entry = "post" ->
            LET res == [results EXCEPT !.whatsapp =
                          [set |-> TRUE, result |-> result,
                           dataType |-> "last_24_hours_date_sorted"]]
            IN /\ results' = res
               /\ response' = SentResponse(body, res, sortedVisits)
               /\ logs' = logs
       [] entry = "cron" ->
            /\ results' = results
            /\ response' = Returned([success |-> TRUE, info |-> results.email,
                                     whatsappResult |-> result,
                                     visitCount |-> Len(sortedVisits)])
            /\ logs' = Append(logs, [what |-> "whatsapp", count |-> result.visitsCount])
       [] OTHER ->
            /\ results' = results
            /\ response' = Returned(result)
            /\ logs' = logs

\* an await rejected: the catch of the entry point answers (lines 460-463,
\* 698-700) or rethrows (lines 252-255, 356-359, 685-688)
Rejected ==
  /\ pc' = "done"
  /\ response' = IF entry \in {"post", "post2"} THEN ServerError ELSE Threw

\* the send with a rejection caught inside the loop: the next chunk goes on
ChatSendDoneSwallowing(ok) ==
  /\ pc = "wa_send"
  /\ LET k == Len(wa.messageIds) + 1
         sid == Len(chats) + 1
         w == [wa EXCEPT !.messageIds = Append(@, sid)]
     IN /\ chats' = Append(chats, [to |-> wa.to, body |-> wa.bodies[k], ok |-> ok, sid |-> sid])
        /\ wa' = w
        /\ IF wa.path = "chunked"
           THEN /\ pc' = "wa_delay"
                /\ UNCHANGED <<results, logs, response>>
           ELSE ChatReturned(ChatResult(w))
  /\ UNCHANGED <<now, genLen, entry, body, store, sortedVisits, mails>>
  /\ UNCHANGED pureVars

\* the send without the pause of line 247: the next chunk goes out at once
ChatSendDoneWithoutDelay(ok) ==
  /\ pc = "wa_send"
  /\ LET k == Len(wa.messageIds) + 1
         sid == Len(chats) + 1
         w == [wa EXCEPT !.messageIds = Append(@, sid)]
     IN /\ chats' = Append(chats, [to |-> wa.to, body |-> wa.bodies[k], ok |-> ok, sid |-> sid])
        /\ IF ~ok
           THEN /\ Rejected
                /\ UNCHANGED <<wa, results, logs>>
           ELSE /\ wa' = w
                /\ IF wa.path = "chunked" /\ k < Len(wa.bodies)
                   THEN /\ pc' = "wa_send"
                        /\ UNCHANGED <<results, logs, response>>
                   ELSE ChatReturned(ChatResult(w))
  /\ UNCHANGED <<now, genLen, entry, body, store, sortedVisits, mails>>
  /\ UNCHANGED pureVars

\* await twilioClient.messages.create(...) settles: lines 181-187, 198-204, 239-245
ChatSendDone(ok) ==
  /\ pc = "wa_send"
  /\ LET k == Len(wa.messageIds) + 1
         sid == Len(chats) + 1
         w == [wa EXCEPT !.messageIds = Append(@, sid)]
     IN /\ chats' = Append(chats, [to |-> wa.to, body |-> wa.bodies[k], ok |-> ok, sid |-> sid])
        /\ IF ~ok
           THEN /\ Rejected
                /\ UNCHANGED <<wa, results, logs>>
           ELSE /\ wa' = w
                /\ IF wa.path = "chunked"
                   THEN /\ pc' = "wa_delay"
                        /\ UNCHANGED <<results, logs, response>>
                   ELSE ChatReturned(ChatResult(w))
  /\ UNCHANGED <<now, genLen, entry, body, store, sortedVisits, mails>>
  /\ UNCHANGED pureVars

\* await new Promise(resolve => setTimeout(resolve, 2000)) settles: lines 247-250
ChatDelayDone ==
  /\ pc = "wa_delay"
  /\ IF Len(wa.messageIds) < Len(wa.bodies)
     THEN /\ pc' = "wa_send"
          /\ UNCHANGED <<results, logs, response>>
     ELSE ChatReturned(ChatResult(wa))
  /\ UNCHANGED <<now, genLen, entry, body, store, sortedVisits, mails, chats, wa>>
  /\ UNCHANGED pureVars

\* sendWhatsAppReport(phoneNumber, visits) called on its own
CallSendWhatsAppReport(phoneNumber, visits) ==
  /\ pc = "idle"
  /\ entry' = "direct"
  /\ sortedVisits' = visits
  /\ wa' = PlanChat(phoneNumber, visits, genLen)
  /\ pc' = "wa_send"
  /\ UNCHANGED <<now, genLen, body, store, results, mails, chats, logs, response>>
  /\ UNCHANGED pureVars

----------------------------------------------------------------------------
(* POST /send-report of the filtering version, lines 365-464 *)

\* lines 441-459: the chat part of the handler, with the results so far
ChatStep(b, sv, res) ==
  /\ results' = res
  /\ IF WantsChat(b.sendMethod)
     THEN IF b.whatsappNumber = <<>>
          THEN /\ response' = BadRequest("WhatsApp number is required")
               /\ pc' = "done"
               /\ wa' = wa
          ELSE /\ wa' = PlanChat(b.whatsappNumber, sv, genLen)
               /\ pc' = "wa_send"
               /\ response' = response
     ELSE /\ response' = SentResponse(b, res, sv)
          /\ pc' = "done"
          /\ wa' = wa

\* the handler up to its first await or its answer: lines 366-420, 441-459
PostSendReport(b) ==
  /\ pc = "idle"
  /\ entry' = "post"
  /\ body' = b
  /\ LET sv == sortVisitsByDate(filterLast24Hours(b.visits, now))
     IN /\ sortedVisits' = sv
        /\ logs' = <<[what |-> "filtered", count |-> Len(sv)]>>
        /\ IF WantsEmail(b.sendMethod)
           THEN IF Trim(b.to) = <<>>
                THEN /\ response' = BadRequest("Email recipient is required")
                     /\ pc' = "done"
                     /\ UNCHANGED <<results, wa>>
                ELSE IF ~emailRegexTest(Trim(b.to))
                THEN /\ response' = BadRequest("Invalid email format")
                     /\ pc' = "done"
                     /\ UNCHANGED <<results, wa>>
                ELSE /\ pc' = "post_mail"
                     /\ UNCHANGED <<results, wa, response>>
           ELSE ChatStep(b, sv, results)
  /\ UNCHANGED <<now, genLen, store, mails, chats>>
  /\ UNCHANGED pureVars

\* await transporter.sendMail(...) settles: lines 421-439, then 441-459
PostMailDone(ok) ==
  /\ pc = "post_mail"
  /\ LET id == Len(mails) + 1
     IN /\ mails' = Append(mails, [to |-> Trim(body.to),
                                   html |-> [total |-> Len(sortedVisits)],
                                   sheet |-> <<>>, ok |-> ok, id |-> id])
        /\ IF ok
           THEN ChatStep(body, sortedVisits,
                         [results EXCEPT !.email =
                            [set |-> TRUE, success |-> TRUE, messageId |-> id,
                             dataType |-> "last_24_hours_date_sorted",
                             visitCount |-> Len(sortedVisits)]])
           ELSE /\ Rejected
                /\ UNCHANGED <<results, wa>>
  /\ UNCHANGED <<now, genLen, entry, body, store, sortedVisits, chats, logs>>
  /\ UNCHANGED pureVars

----------------------------------------------------------------------------
(* sendDailyReport of the filtering version, lines 261-360, run by the     *)
(* timer (lines 486-493)                                                    *)

\* the stores a run may read
Stores(t) ==
  SeqsUpTo(DocKinds(t), MaxVisits)
    \cup { [i \in 1..(chunkSize + 1) |->
             Doc(Txt("Asha", 4), (t \div 1000) - 60 * i, Missing, Txt("Booked", 6), NoTypes)] }

\* the job up to its first send: fetchVisitData (lines 97-134), the early
\* return (lines 265-268), the table and the workbook (lines 271-327)
SendDailyReport(docs, fetchOk) ==
  /\ pc = "idle"
  /\ entry' = "cron"
  /\ store' = docs
  /\ IF ~fetchOk
     THEN /\ Rejected
          /\ UNCHANGED <<sortedVisits, logs>>
     ELSE LET rows == MakeRows(docs)
              last24HourVisits == sortVisitsByDate(filterLast24Hours(rows, now))
          IN /\ sortedVisits' = last24HourVisits
             /\ logs' = <<[what |-> "total", count |-> Len(rows)],
                          [what |-> "last24h", count |-> Len(last24HourVisits)]>>
             /\ IF NoVisits(last24HourVisits)
                THEN /\ response' = Returned([message |-> "No visits found in last 24 hours",
                                              visitCount |-> 0])
                     /\ pc' = "done"
                ELSE /\ pc' = "cron_mail"
                     /\ response' = response
  /\ UNCHANGED <<now, genLen, body, results, mails, chats, wa>>
  /\ UNCHANGED pureVars

\* await transporter.sendMail(...) settles, then the chat sender is called:
\* lines 330-346
DailyMailDone(ok) ==
  /\ pc = "cron_mail"
  /\ LET id == Len(mails) + 1
     IN /\ mails' = Append(mails, [to |-> JobRecipient, html |-> htmlTable(sortedVisits),
                                   sheet |-> sheetRows(sortedVisits), ok |-> ok, id |-> id])
        /\ IF ok
           THEN /\ results' = [results EXCEPT !.email = [set |-> TRUE, messageId |-> id]]
                /\ wa' = PlanChat(JobNumber, sortedVisits, genLen)
                /\ pc' = "wa_send"
                /\ response' = response
           ELSE /\ Rejected
                /\ UNCHANGED <<results, wa>>
  /\ UNCHANGED <<now, genLen, entry, body, store, sortedVisits, chats, logs>>
  /\ UNCHANGED pureVars

----------------------------------------------------------------------------
(* The unfiltered version: sendDailyReport, lines 555-689, run by the timer *)
(* (lines 706-713, entry "cron2") or by POST /send-report (lines 694-701,   *)
(* entry "post2")                                                           *)

\* the function returned `value`: the timer drops it, the handler answers
\* res.json({ ok: true, info })
ReturnedUnfiltered(e, value) ==
  IF e = "post2" THEN [kind |-> "http", status |-> 200, ok |-> TRUE, info |-> value]
  ELSE Returned(value)

\* the job up to its first send: lines 556-640
SendDailyReportUnfiltered(e, docs, fetchOk) ==
  /\ pc = "idle"
  /\ entry' = e
  /\ store' = docs
  /\ IF ~fetchOk
     THEN /\ pc' = "done"
          /\ response' = IF e = "post2" THEN ServerError ELSE Threw
          /\ UNCHANGED <<sortedVisits, logs>>
     ELSE LET rows == MakeRows(docs)
          IN /\ sortedVisits' = rows
             /\ logs' = <<[what |-> "total", count |-> Len(rows)]>>
             /\ IF NoRows(rows)
                THEN /\ response' = ReturnedUnfiltered(e, Undefined)
                     /\ pc' = "done"
                ELSE /\ pc' = "daily2_mail"
                     /\ response' = response
  /\ UNCHANGED <<now, genLen, body, results, mails, chats, wa>>
  /\ UNCHANGED pureVars

\* await transporter.sendMail(...) settles, the chat bodies are built: lines 643-673
UnfilteredMailDone(ok) ==
  /\ pc = "daily2_mail"
  /\ LET id == Len(mails) + 1
     IN /\ mails' = Append(mails, [to |-> JobRecipient,
                                   html |-> htmlTableUnfiltered(sortedVisits),
                                   sheet |-> sheetRows(sortedVisits), ok |-> ok, id |-> id])
        /\ IF ok
           THEN /\ results' = [results EXCEPT !.email = [set |-> TRUE, messageId |-> id]]
                /\ wa' = [ to |-> JobNumberUnfiltered, path |-> "daily",
                           bodies |-> DailyMessages(sortedVisits),
                           messageIds |-> <<>>, visitsCount |-> Len(sortedVisits) ]
                /\ pc' = "daily2_send"
                /\ response' = response
           ELSE /\ Rejected
                /\ UNCHANGED <<results, wa>>
  /\ UNCHANGED <<now, genLen, entry, body, store, sortedVisits, chats, logs>>
  /\ UNCHANGED pureVars

\* await twilioClient.messages.create(...) settles in the loop of lines 671-682;
\* after the last body the job returns info (line 684)
UnfilteredChatDone(ok) ==
  /\ pc = "daily2_send"
  /\ LET k == Len(wa.messageIds) + 1
         sid == Len(chats) + 1
     IN /\ chats' = Append(chats, [to |-> wa.to, body |-> wa.bodies[k], ok |-> ok, sid |-> sid])
        /\ IF ~ok
           THEN /\ Rejected
                /\ wa' = wa
           ELSE /\ wa' = [wa EXCEPT !.messageIds = Append(@, sid)]
                /\ IF k < Len(wa.bodies)
                   THEN UNCHANGED <<pc, response>>
                   ELSE /\ pc' = "done"
                        /\ response' = ReturnedUnfiltered(entry, results.email)
  /\ UNCHANGED <<now, genLen, entry, body, store, sortedVisits, results, mails, logs>>
  /\ UNCHANGED pureVars

----------------------------------------------------------------------------
(* The helpers called on their own *)

CallFilter ==
  /\ Len(pureOps) < MaxCalls
  /\ pureArg' = pureVal
  /\ pureVal' = filterLast24Hours(pureVal, now)
  /\ pureOps' = Append(pureOps, "filter")
  /\ UNCHANGED <<now, genLen, store>>
  /\ UNCHANGED runVars

CallSort ==
  /\ Len(pureOps) < MaxCalls
  /\ pureArg' = pureVal
  /\ pureVal' = sortVisitsByDate(pureVal)
  /\ pureOps' = Append(pureOps, "sort")
  /\ UNCHANGED <<now, genLen, store>>
  /\ UNCHANGED runVars

----------------------------------------------------------------------------
(* Specifications *)

RunIdle ==
  /\ pc = "idle" /\ entry = "none" /\ body = NoBody /\ store = <<>>
  /\ sortedVisits = <<>> /\ results = NoResults /\ mails = <<>> /\ chats = <<>>
  /\ wa = NoWa /\ logs = <<>> /\ response = NoResponse

PureIdle == pureVal = <<>> /\ pureArg = <<>> /\ pureOps = <<>>

\* the server: a request or a timer run, from its start to its answer
Init ==
  /\ now = Clock
  /\ genLen \in GenLens
  /\ RunIdle
  /\ PureIdle

Next ==
  \/ pc = "idle" /\ \E b \in Bodies(now) : PostSendReport(b)
  \/ \E ok \in BOOLEAN : PostMailDone(ok)
  \/ pc = "idle" /\ \E docs \in Stores(now) : \E fetchOk \in BOOLEAN :
       SendDailyReport(docs, fetchOk)
  \/ \E ok \in BOOLEAN : DailyMailDone(ok)
  \/ \E ok \in BOOLEAN : ChatSendDone(ok)
  \/ ChatDelayDone
  \/ pc = "idle" /\ \E e \in {"cron2", "post2"} : \E docs \in Stores(now) :
       \E fetchOk \in BOOLEAN : SendDailyReportUnfiltered(e, docs, fetchOk)
  \/ \E ok \in BOOLEAN : UnfilteredMailDone(ok)
  \/ \E ok \in BOOLEAN : UnfilteredChatDone(ok)

Spec == Init /\ [][Next]_vars

\* the chat sender called with any row sequence
NextChat ==
  \/ pc = "idle" /\ \E phoneNumber \in Numbers \ {<<>>} :
       \E visits \in SeqsUpTo({ MakeRow(d) : d \in DocKinds(now) }, MaxRows) :
         CallSendWhatsAppReport(phoneNumber, visits)
  \/ \E ok \in BOOLEAN : ChatSendDone(ok)
  \/ ChatDelayDone

SpecChat == Init /\ [][NextChat]_vars

\* the helpers called with any row sequence
InitPure ==
  /\ now \in Nows
  /\ genLen = 20
  /\ RunIdle
  /\ pureVal \in SeqsUpTo(RowKinds(now), MaxRows)
  /\ pureArg = <<>>
  /\ pureOps = <<>>

NextPure == CallFilter \/ CallSort

SpecPure == InitPure /\ [][NextPure]_vars

----------------------------------------------------------------------------
(* Properties *)

Done == pc = "done"

\* the last helper called
LastOp == IF pureOps = <<>> THEN "none" ELSE pureOps[Len(pureOps)]

\* a send on the channel was accepted
EmailSucceeded == \E i \in 1..Len(mails) : mails[i].ok
ChatSucceeded == chats # <<>> /\ \A i \in 1..Len(chats) : chats[i].ok
\* a send on the channel was refused
EmailFailed == \E i \in 1..Len(mails) : ~mails[i].ok
ChatFailed == \E i \in 1..Len(chats) : ~chats[i].ok

\* the run is to deliver on both channels: POST with sendMethod "both" and
\* valid destinations, or the timer job of the filtering version with rows
DeliversOnBoth ==
  \/ /\ entry = "post" /\ body.sendMethod = "both"
     /\ emailRegexTest(Trim(body.to)) /\ body.whatsappNumber # <<>>
  \/ entry = "cron" /\ sortedVisits # <<>>

\* what the caller is told says which channel succeeded: the 200 answer lists
\* the channels in results, the job's value holds info and whatsappResult; an
\* error answer names no channel
Discloses ==
  IF response.kind = "http" /\ response.status = 200
  THEN /\ response.results.email.set = EmailSucceeded
       /\ response.results.whatsapp.set = ChatSucceeded
  ELSE IF response.kind = "returned" THEN EmailSucceeded /\ ChatSucceeded
  ELSE ~EmailSucceeded /\ ~ChatSucceeded

\* C1: in a run that is to deliver on both channels, a failed send on one
\* channel does not keep the other channel's send from being attempted, and
\* the outcome tells which channel succeeded
C1_OtherChannelAttempted ==
  (Done /\ DeliversOnBoth) =>
    /\ EmailFailed => chats # <<>>
    /\ ChatFailed => mails # <<>>
    /\ Discloses

\* C2: a request of the filtering version answered with 400 has attempted no
\* email send and no chat send
C2_NoSendBefore400 ==
  (entry = "post" /\ response.kind = "http" /\ response.status = 400) =>
    mails = <<>> /\ chats = <<>>

\* the job ran on an empty row set (the fetch succeeded and logged its count)
JobOnEmptyRowSet ==
  entry \in {"cron", "cron2", "post2"} /\ logs # <<>> /\ sortedVisits = <<>>

\* C3: when the row set of sendDailyReport is empty (after the 24-hour filter
\* in the filtering version) the job has returned, no email and no chat message
\* was sent, and the count it reports is zero: the filtering version returns
\* visitCount 0, the unfiltered version logs a total of 0 and returns nothing
C3_EmptyRowSetSendsNothing ==
  JobOnEmptyRowSet =>
    /\ Done
    /\ mails = <<>> /\ chats = <<>>
    /\ logs[Len(logs)].count = 0
    /\ entry = "cron" => response = Returned([message |-> "No visits found in last 24 hours",
                                               visitCount |-> 0])
    /\ entry = "cron2" => response = Returned(Undefined)
    /\ entry = "post2" => response.kind = "http" /\ response.status = 200

C3_Witness ==
  Done /\ entry = "cron" /\ store # <<>> /\ sortedVisits = <<>> /\ mails = <<>>

\* C4: on the chunked path no chunk that is built or sent is longer than 1500
\* characters
C4_ChunksWithinBudget ==
  wa.path = "chunked" =>
    /\ \A k \in 1..Len(wa.bodies) : BodyLen(wa.bodies[k]) <= maxLength
    /\ \A i \in 1..Len(chats) : BodyLen(chats[i].body) <= maxLength

\* the row blocks of a body, in order
VisitParts(parts) == SelectSeq(parts, LAMBDA part : part.kind = "visit")

\* the row blocks of a sequence of bodies, read body by body
AllVisitParts(bodies) == Flatten([k \in 1..Len(bodies) |-> VisitParts(bodies[k])])

\* C5: on the chunked path the row blocks of the chunks, read in send order,
\* are the blocks of rows 1..n in the original order, each once and whole in
\* one chunk; the summary is the last part of the last chunk and appears
\* nowhere else; the chunks are sent in the order they were built
C5_ChunksHoldEveryRowOnce ==
  wa.path = "chunked" =>
    /\ AllVisitParts(wa.bodies)
         = [i \in 1..Len(sortedVisits) |-> VisitPart("plain", i, sortedVisits[i])]
    /\ \A k \in 1..Len(wa.bodies) : \A j \in 1..Len(wa.bodies[k]) :
         wa.bodies[k][j].kind = "summary" <=>
           (k = Len(wa.bodies) /\ j = Len(wa.bodies[k]))
    /\ Len(chats) <= Len(wa.bodies)
    /\ \A i \in 1..Len(chats) : chats[i].body = wa.bodies[i]

C5_Witness ==
  /\ wa.path = "chunked" /\ Done /\ response.kind = "returned"
  /\ Len(chats) = 2 /\ Len(sortedVisits) = 3
  /\ Len(VisitParts(chats[1].body)) = 2 /\ Len(VisitParts(chats[2].body)) = 1

\* the timestamp lies in [now - 24h, now]
InWindow(row) ==
  /\ HasTimestamp(row)
  /\ now - DayMs <= row.visitTimestamp
  /\ row.visitTimestamp <= now

\* C6: filterLast24Hours returns exactly the rows, in input order, whose
\* timestamp lies in [now - 24h, now]
C6_FilterKeepsWindow ==
  LastOp = "filter" => pureVal = SelectSeq(pureArg, InWindow)

SameInstant(a, b) ==
  HasTimestamp(a) /\ HasTimestamp(b) /\ a.visitTimestamp = b.visitTimestamp

\* C7: sortVisitsByDate returns a permutation of its input in which the rows
\* with a timestamp are in non-increasing timestamp order, every row without
\* one comes after every row with one, and rows with equal timestamps keep
\* their input order
C7_SortedLatestFirst ==
  LastOp = "sort" =>
    LET n == Len(pureArg) IN
    /\ Len(pureVal) = n
    /\ \E p \in Permutations(1..n) :
         /\ \A i \in 1..n : pureVal[i] = pureArg[p[i]]
         /\ \A i \in 1..n : \A j \in 1..n :
              (i < j /\ SameInstant(pureVal[i], pureVal[j])) => p[i] < p[j]
    /\ \A i \in 1..n : \A j \in 1..n :
         (i < j /\ HasTimestamp(pureVal[j])) =>
           /\ HasTimestamp(pureVal[i])
           /\ pureVal[i].visitTimestamp >= pureVal[j].visitTimestamp

C7_Witness ==
  /\ LastOp = "sort" /\ Len(pureArg) = 3 /\ pureVal # pureArg
  /\ ~HasTimestamp(pureArg[1])
  /\ SameInstant(pureArg[2], pureArg[3]) /\ pureArg[2] # pureArg[3]

\* the job of either version sent its email and every chat message
JobDelivered ==
  /\ Done /\ entry \in {"cron", "cron2", "post2"}
  /\ EmailSucceeded /\ ChatSucceeded

\* the S.No and the fields each row block of the chat messages shows
ChatCells ==
  LET blocks == AllVisitParts([i \in 1..Len(chats) |-> chats[i].body])
  IN [i \in 1..Len(blocks) |-> [sno |-> blocks[i].sno, fields |-> blocks[i].fields]]

\* C8: in one run the HTML table, the sheet and the row blocks of the chat
\* messages list the same rows in the same order with the same value for each
\* of the eight fields, in both versions of sendDailyReport
C8_SameRowsInEveryRendering ==
  JobDelivered =>
    /\ mails[1].html.rows = Cells(sortedVisits)
    /\ mails[1].sheet = mails[1].html.rows
    /\ ChatCells = mails[1].html.rows

\* C9: the summary that closes the chat message of sendWhatsAppReport carries
\* the counts of the HTML summary of the same run (total, Booked, Not Booked,
\* Interested), on the single-message path and on the chunked path
C9_ChatSummaryMatchesHtml ==
  (JobDelivered /\ entry = "cron") =>
    LET last == chats[Len(chats)].body
    IN /\ last[Len(last)].kind = "summary"
       /\ last[Len(last)].counts = mails[1].html.summary

\* sendWhatsAppReport was called by the handler with an empty row set
ChatCalledOnEmpty ==
  entry = "post" /\ sortedVisits = <<>> /\ wa.path # "none"

\* C10: called with an empty row set, sendWhatsAppReport sends one message,
\* the "no data" body, to the formatted number and never another or an empty
\* one; when the send is accepted it returns success with visitsCount 0
C10_EmptyRowSetSendsNoData ==
  ChatCalledOnEmpty =>
    /\ wa.bodies = << <<NoDataPart(genLen)>> >>
    /\ BodyLen(wa.bodies[1]) > 0
    /\ Len(chats) <= 1
    /\ Done => Len(chats) = 1
    /\ \A i \in 1..Len(chats) :
         /\ chats[i].body = <<NoDataPart(genLen)>>
         /\ chats[i].to[1] = "whatsapp:"
         /\ Tail(chats[i].to) = IF body.whatsappNumber[1] = "whatsapp:"
                                THEN Tail(body.whatsappNumber) ELSE body.whatsappNumber
    /\ (Done /\ ChatSucceeded) =>
         /\ response.kind = "http" /\ response.status = 200
         /\ response.results.whatsapp.set
         /\ response.results.whatsapp.result
              = [success |-> TRUE, messageId |-> chats[1].sid, visitsCount |-> 0]

C10_Witness ==
  /\ ChatCalledOnEmpty /\ Done /\ ChatSucceeded
  /\ body.visits # <<>> /\ Len(chats) = 1
  /\ response.results.whatsapp.result.visitsCount = 0

\* C11: on the chunked path, once the send of a chunk has failed the sender
\* has stopped: the failed send is the last call made, the chunks before it
\* were sent, in order, and stay sent, and the caller gets the error, not a
\* success result
C11_FailedChunkStopsTheRest ==
  (wa.path = "chunked" /\ ChatFailed) =>
    /\ Done
    /\ ~chats[Len(chats)].ok
    /\ \A i \in 1..(Len(chats) - 1) : chats[i].ok /\ chats[i].body = wa.bodies[i]
    /\ chats[Len(chats)].body = wa.bodies[Len(chats)]
    /\ response = IF entry = "post" THEN ServerError ELSE Threw

C11_Witness ==
  /\ wa.path = "chunked" /\ Done /\ Len(wa.bodies) > 2
  /\ Len(chats) = 2 /\ chats[1].ok /\ ~chats[2].ok
  /\ response = Threw

\* the chunks sent so far are the first chunks, in chunk order, and a send
\* that is about to start has every earlier send completed and recorded
ChunksInOrder ==
  wa.path = "chunked" =>
    /\ Len(chats) <= Len(wa.bodies)
    /\ \A i \in 1..Len(chats) : chats[i].body = wa.bodies[i] /\ chats[i].to = wa.to
    /\ pc = "wa_send" =>
         /\ Len(wa.messageIds) = Len(chats)
         /\ \A i \in 1..Len(chats) : chats[i].ok

\* the value returned after the last chunk: one identifier per chunk, the
\* i-th that of the i-th chunk, and the number of rows
ChunkedResultInOrder ==
  (wa.path = "chunked" /\ Done /\ response.kind = "returned") =>
    /\ response.value.success
    /\ Len(response.value.messageIds) = Len(wa.bodies)
    /\ Len(chats) = Len(wa.bodies)
    /\ \A i \in 1..Len(wa.bodies) :
         /\ response.value.messageIds[i] = chats[i].sid
         /\ chats[i].ok
    /\ response.value.visitsCount = Len(sortedVisits)

\* one step sends at most one chunk, and after a send the next send starts
\* only from the pause that follows it
PacedStep ==
  wa'.path = "chunked" =>
    /\ chats' # chats =>
         /\ pc = "wa_send"
         /\ Len(chats') = Len(chats) + 1
         /\ pc' \in {"wa_delay", "done"}
    /\ (pc' = "wa_send" /\ Len(chats') > 0) => (pc = "wa_delay" /\ chats' = chats)

\* C12: on the chunked path the chunks are sent one at a time in chunk order,
\* each send starting only after the send before it has completed and the
\* pause after it has elapsed; on success messageIds holds one identifier per
\* chunk, in chunk order, and visitsCount is the number of rows
C12_ChunksSentInOrderAndPaced ==
  /\ [](ChunksInOrder /\ ChunkedResultInOrder)
  /\ [][PacedStep]_vars

C12_Witness ==
  /\ wa.path = "chunked" /\ Done /\ response.kind = "returned"
  /\ Len(chats) > 2 /\ Len(response.value.messageIds) = Len(chats)
  /\ Len(sortedVisits) = 3

\* the last two helpers called were both the filter
FilteredTwice ==
  /\ Len(pureOps) >= 2
  /\ pureOps[Len(pureOps) - 1] = "filter"
  /\ pureOps[Len(pureOps)] = "filter"

\* C13: with the current instant fixed, filtering a filtered collection
\* returns it unchanged: the same rows in the same order
C13_FilterIdempotent ==
  /\ FilteredTwice => pureVal = pureArg
  /\ LastOp = "filter" => filterLast24Hours(pureVal, now) = pureVal

C13_Witness ==
  /\ pureOps = <<"filter", "filter">>
  /\ Len(pureVal) >= 2
  /\ pureVal = pureArg

\* the request was answered with ok: true and "Report sent successfully via ..."
AnsweredSent ==
  /\ entry = "post" /\ Done
  /\ response.kind = "http" /\ response.status = 200 /\ response.ok

\* C14: every POST /send-report answered with ok: true and "Report sent
\* successfully via ..." has made at least one accepted channel send during
\* the request, and its results hold at least one of email or whatsapp,
\* whatever the value of sendMethod
C14_SentAnswerMeansASend ==
  AnsweredSent =>
    /\ EmailSucceeded \/ ChatSucceeded
    /\ response.results.email.set \/ response.results.whatsapp.set

====
